---- MODULE Spec2Model ----
(***************************************************************************)
(* A model of weave (langzime/stargate): a small HTTP router.  The         *)
(* process parses `SRC to DEST [and SRC to DEST ...]` from its command     *)
(* line (routes.rs, from_args), partitions the routes by listen socket     *)
(* address (main.rs, run), starts one listener per address                 *)
(* (handle_requests) and answers every request by proxying it or by        *)
(* serving a file (handle_request, do_handle_request).                     *)
(*                                                                         *)
(* location.rs and matcher.rs are not part of the sources at hand:         *)
(* SrcLocation_parse, DestLocation_parse, Matcher_new and Matcher_resolve  *)
(* follow the written specification (sections 4.1 and 4.3).                *)
(***************************************************************************)
EXTENDS Integers, Sequences, FiniteSets, TLC

(***************************************************************************)
(* Bounds                                                                  *)
(***************************************************************************)
\* Longest freely chosen run of command-line tokens.
MaxArgs == 4
\* Longest time one awaited I/O operation takes, in ticks of the clock.
MaxIoTime == 1

(***************************************************************************)
(* Option and Result values                                                *)
(***************************************************************************)
None == [some |-> FALSE]
Some(v) == [some |-> TRUE, val |-> v]
Ok(v) == [ok |-> TRUE, val |-> v]
Err(e) == [ok |-> FALSE, err |-> e]

\* s is a prefix of t
IsPrefix(s, t) == Len(s) <= Len(t) /\ SubSeq(t, 1, Len(s)) = s

(***************************************************************************)
(* Command-line tokens                                                     *)
(***************************************************************************)
\* Tokens of the form host:port[/path-prefix].
SrcTokens == {"h:1/a", "h:1/a/b", "h:2", "g:1/a", "nohost:1/a"}

\* Tokens the free part of a command line is drawn from.
ArgTokens ==
    {"h:1/a", "h:2", "to", " to ", "and", "and ",
     "./dir", "http://x/", "http://["}

\* str::trim on the tokens of the model: only " to " and "and " carry
\* surrounding whitespace.
trim(s) == CASE s = " to " -> "to" [] s = "and " -> "and" [] OTHER -> s

\* SrcLocation::parse: host:port[/path-prefix], the prefix defaulting to "/"
\* (the empty sequence of segments); anything else is a parse error.
SrcLocation_parse(tok) ==
    CASE tok = "h:1/a"      -> Ok([address |-> "h:1", path_prefix |-> <<"a">>])
      [] tok = "h:1/a/b"    -> Ok([address |-> "h:1", path_prefix |-> <<"a", "b">>])
      [] tok = "h:2"        -> Ok([address |-> "h:2", path_prefix |-> <<>>])
      [] tok = "g:1/a"      -> Ok([address |-> "g:1", path_prefix |-> <<"a">>])
      [] tok = "nohost:1/a" -> Ok([address |-> "nohost:1", path_prefix |-> <<"a">>])
      [] OTHER              -> Err("not a host:port location")

\* DestLocation::parse: an http(s) URL is a RemoteOrigin, a malformed one is
\* an error, every other token is a filesystem path (a LocalRoot).
DestLocation_parse(tok) ==
    CASE tok = "http://x/" -> Ok([variant |-> "RemoteOrigin", base |-> <<"http://x">>])
      [] tok = "http://["  -> Err("invalid URL")
      [] tok = "./dir"     -> Ok([variant |-> "LocalRoot", base |-> <<"dir">>])
      [] OTHER             -> Ok([variant |-> "LocalRoot", base |-> <<tok>>])

(***************************************************************************)
(* std::iter::Peekable over the argument vector                            *)
(***************************************************************************)
\* A Peekable is [i: items already taken from the underlying iterator,
\*                buf: the peeked item, when one is held].
Empty == [full |-> FALSE]
Holding(item) == [full |-> TRUE, item |-> item]
into_iter_peekable == [i |-> 0, buf |-> Empty]

\* The underlying iterator's next(): the item and the advanced position.
iter_next(argv, i) ==
    IF i < Len(argv) THEN [item |-> Some(argv[i + 1]), i |-> i + 1]
    ELSE [item |-> None, i |-> i]

\* Peekable::peek: fills the buffer when it is empty, consumes nothing.
peek(argv, p) ==
    IF p.buf.full THEN [item |-> p.buf.item, p |-> p]
    ELSE LET n == iter_next(argv, p.i)
         IN [item |-> n.item, p |-> [i |-> n.i, buf |-> Holding(n.item)]]

\* Peekable::next: hands out the buffered item first.
next(argv, p) ==
    IF p.buf.full THEN [item |-> p.buf.item, p |-> [p EXCEPT !.buf = Empty]]
    ELSE LET n == iter_next(argv, p.i)
         IN [item |-> n.item, p |-> [i |-> n.i, buf |-> Empty]]

\* What the iterator still yields: the buffered item, then the rest.
remaining(argv, p) ==
    (IF p.buf.full /\ p.buf.item.some THEN <<p.buf.item.val>> ELSE <<>>)
        \o SubSeq(argv, p.i + 1, Len(argv))

(***************************************************************************)
(* routes.rs: from_args                                                    *)
(***************************************************************************)
\* The error texts, as the pieces their format strings put together.
ExpectingTo(peeked) ==
    <<"Expecting the word '", "to", "' after the location '", peeked, "'">>
ErrorParsing(dest, e) == <<"Error parsing '", dest, "': ", e>>
ExpectingDest(peeked) ==
    <<"Expecting a destination location to be provided after '", peeked, " to'">>
AndNotFollowed == <<"'and' not followed by a subsequent route">>

\* next_is_joiner without the comparison: any token passes for the joiner.
next_is_joiner_any(joiner) == joiner.some

\* lines 28-36
next_is_joiner(joiner) == joiner.some /\ trim(joiner.val) = "to"

\* lines 58-66
next_is_and(and) == and.some /\ trim(and.val) = "and"

\* parse_dest with the source token in place of the destination token in the
\* parse error.
parse_dest_names_src(peeked, dest) ==
    IF dest.some
    THEN LET d == DestLocation_parse(dest.val)
         IN IF d.ok THEN d ELSE Err(ErrorParsing(peeked, d.err))
    ELSE Err(ExpectingDest(peeked))

\* lines 43-49: the destination after `SRC to`
parse_dest(peeked, dest) ==
    IF dest.some
    THEN LET d == DestLocation_parse(dest.val)
         IN IF d.ok THEN d ELSE Err(ErrorParsing(dest.val, d.err))
    ELSE Err(ExpectingDest(peeked))

\* from_args_end without the check of expects_more.
from_args_end_unchecked(argv, p, routes, expects_more) ==
    Ok([routes |-> routes, args |-> p])

\* lines 82-90: after the loop
from_args_end(argv, p, routes, expects_more) ==
    IF expects_more THEN Err(AndNotFollowed)
    ELSE Ok([routes |-> routes, args |-> p])

\* after_route with next() where the code peeks: the token after a route is
\* consumed whatever it is.
after_route_consuming(argv, p) ==
    LET n == next(argv, p)
    IN [more |-> next_is_and(n.item), p |-> n.p]

\* lines 57-74: after a route, stop or consume `and`; the Peekable and the
\* flag the loop goes on with
after_route(argv, p) ==
    LET pk == peek(argv, p)
    IN IF next_is_and(pk.item)
       THEN [more |-> TRUE, p |-> next(argv, pk.p).p]
       ELSE [more |-> FALSE, p |-> pk.p]

\* lines 15-80: the while-let loop, one iteration per unfolding
RECURSIVE from_args_loop(_, _, _, _)
from_args_loop(argv, p, routes, expects_more) ==
    LET pk == peek(argv, p)
    IN IF ~pk.item.some THEN from_args_end(argv, pk.p, routes, expects_more)
       ELSE
       LET peeked == pk.item.val
           src == SrcLocation_parse(peeked)
       IN IF ~src.ok THEN from_args_end(argv, pk.p, routes, expects_more)
          ELSE
          LET n1 == next(argv, pk.p)
              n2 == next(argv, n1.p)
          IN IF ~next_is_joiner(n2.item) THEN Err(ExpectingTo(peeked))
             ELSE
             LET n3 == next(argv, n2.p)
                 dest == parse_dest(peeked, n3.item)
             IN IF ~dest.ok THEN dest
                ELSE
                LET pushed == Append(routes, [src |-> src.val, dest |-> dest.val])
                    ar == after_route(argv, n3.p)
                IN IF ar.more THEN from_args_loop(argv, ar.p, pushed, TRUE)
                   ELSE from_args_end(argv, ar.p, pushed, FALSE)

\* lines 7-91
from_args(argv) == from_args_loop(argv, into_iter_peekable, <<>>, FALSE)

(***************************************************************************)
(* routes.rs: Route::src_socket_addr                                       *)
(***************************************************************************)
\* ToSocketAddrs for the hosts of the model: h and g name the same machine,
\* h:2 resolves to two addresses, nohost does not resolve.
to_socket_addrs(address) ==
    CASE address = "h:1" -> Ok(<<"10.0.0.1:1">>)
      [] address = "g:1" -> Ok(<<"10.0.0.1:1">>)
      [] address = "h:2" -> Ok(<<"[::1]:2", "10.0.0.1:2">>)
      [] OTHER           -> Err("failed to lookup address information")

\* src_socket_addr taking the last of the resolved addresses.
src_socket_addr_last(route) ==
    LET addrs == to_socket_addrs(route.src.address)
    IN IF ~addrs.ok
       THEN Err(<<"Cannot parse socket address to listen on: ", addrs.err>>)
       ELSE IF Len(addrs.val) > 0 THEN Ok(addrs.val[Len(addrs.val)])
       ELSE Err(<<"Cannot parse socket address to listen on">>)

\* lines 100-110
src_socket_addr(route) ==
    LET addrs == to_socket_addrs(route.src.address)
    IN IF ~addrs.ok
       THEN Err(<<"Cannot parse socket address to listen on: ", addrs.err>>)
       ELSE IF Len(addrs.val) > 0 THEN Ok(addrs.val[1])
       ELSE Err(<<"Cannot parse socket address to listen on">>)

(***************************************************************************)
(* main.rs: run, up to join_all                                            *)
(***************************************************************************)
\* entry_push with the route put in front of its group.
entry_push_front(map, k, v) ==
    IF k \in DOMAIN map THEN [map EXCEPT ![k] = <<v>> \o @]
    ELSE [x \in DOMAIN map \cup {k} |-> IF x = k THEN <<v>> ELSE map[x]]

\* HashMap::entry(k).or_default().push(v)
entry_push(map, k, v) ==
    IF k \in DOMAIN map THEN [map EXCEPT ![k] = Append(@, v)]
    ELSE [x \in DOMAIN map \cup {k} |-> IF x = k THEN <<v>> ELSE map[x]]

\* lines 61-66: the partition loop from route i on; `?` leaves at the first
\* route whose address does not resolve
RECURSIVE partition(_, _, _)
partition(rs, i, map) ==
    IF i > Len(rs) THEN Ok(map)
    ELSE LET socket_addr == src_socket_addr(rs[i])
         IN IF ~socket_addr.ok THEN socket_addr
            ELSE partition(rs, i + 1, entry_push(map, socket_addr.val, rs[i]))

\* The empty HashMap (a function with no argument).
HashMap_new == [x \in {} |-> <<>>]

(***************************************************************************)
(* matcher.rs, after section 4.3 of the specification                      *)
(***************************************************************************)
\* Matcher::new: keeps the routes of one listener in declaration order.
Matcher_new(rs) == rs

\* The routes whose prefix is a segment-prefix of the request path.
matching(matcher, path) ==
    {i \in DOMAIN matcher : IsPrefix(matcher[i].src.path_prefix, path)}

\* best_match by declaration order alone: the first route that matches.
best_match_first(matcher, path) ==
    CHOOSE i \in matching(matcher, path) :
        \A j \in matching(matcher, path) : i <= j

\* The longest matching prefix; among equals the route declared first.
best_match(matcher, path) ==
    CHOOSE i \in matching(matcher, path) :
        \A j \in matching(matcher, path) :
            \/ Len(matcher[i].src.path_prefix) > Len(matcher[j].src.path_prefix)
            \/ /\ Len(matcher[i].src.path_prefix) = Len(matcher[j].src.path_prefix)
               /\ i <= j

\* The destination of a route with the remainder of the path appended.
resolve_with(route, path) ==
    LET remainder == SubSeq(path, Len(route.src.path_prefix) + 1, Len(path))
    IN IF route.dest.variant = "RemoteOrigin"
       THEN [variant |-> "Url", url |-> route.dest.base \o remainder]
       ELSE [variant |-> "FilePath", path |-> route.dest.base \o remainder]

\* Matcher::resolve
Matcher_resolve(matcher, path) ==
    IF matching(matcher, path) = {} THEN None
    ELSE Some(resolve_with(matcher[best_match(matcher, path)], path))

(***************************************************************************)
(* The inputs of the model                                                 *)
(***************************************************************************)
\* SRC to DEST
Triples == {<<s, "to", d>> : s \in SrcTokens, d \in {"./dir", "http://x/"}}

\* Command lines of the whole-program specification: one or two routes, and
\* one line for every way startup ends early.
CommandLines ==
    Triples \cup {a \o <<"and">> \o b : a \in Triples, b \in Triples}
        \cup {<<>>, <<"h:1/a">>, <<"--help">>,
              <<"h:1/a", "to", "./dir", "--help">>}

\* Every run of at most MaxArgs tokens.
FreeRuns == UNION {[1..n -> ArgTokens] : n \in 0..MaxArgs}

\* Command lines of the argument-parsing specification: free runs, also
\* after a first route, with and without `and` between them.
ArgLines ==
    FreeRuns \cup
        {t \o j \o f :
            t \in {<<"h:1/a", "to", "./dir">>, <<"h:2", " to ", "http://x/">>},
            j \in {<<>>, <<"and">>},
            f \in FreeRuns}

\* Request paths, as segments: /, /a, /a/b, /c, /a/../x
Paths == {<<>>, <<"a">>, <<"a", "b">>, <<"c">>, <<"a", "..", "x">>}

\* Socket addresses a listener may be bound to.
SocketAddrs == {"10.0.0.1:1", "[::1]:2"}

\* Request-handling tasks in flight at once.
Tasks == {"t1"}

\* Command lines of the specification of concurrent requests: two routes on
\* one listener, with equal prefixes and with nested ones.
ConcLines ==
    {<<"h:1/a", "to", "./dir", "and", "g:1/a", "to", "http://x/">>,
     <<"h:1/a", "to", "./dir", "and", "h:1/a/b", "to", "http://x/">>}

\* Its request paths: /a, /a/b, /c
ConcPaths == {<<"a">>, <<"a", "b">>, <<"c">>}

\* Its tasks: two requests in flight at once.
ConcTasks == {"t1", "t2"}

\* How a read of a file fails.
IoErrors == {"No such file or directory", "Permission denied", "Is a directory"}

\* How the outbound request fails.
TransportErrors == {"connection refused", "tls handshake failed", "timed out"}

\* Status codes of an upstream's answer.
UpstreamStatus == {200, 302, 502}

(***************************************************************************)
(* State                                                                   *)
(***************************************************************************)
VARIABLES
    argv,        \* env::args().skip(1)
    pc,          \* where run() stands
    parsed,      \* what from_args returned, once it has
    routes,      \* the routes from_args handed back
    other_args,  \* the Peekable from_args handed back
    map,         \* run's HashMap: socket address -> routes
    exit,        \* how the process ended, once it has
    listener,    \* socket address -> the handle_requests future for it
    task         \* task -> the request it handles

vars == <<argv, pc, parsed, routes, other_args, map, exit, listener, task>>

\* A task with no request.
IdleTask ==
    [phase |-> "idle", socket_addr |-> "", uri |-> <<>>, dest_path |-> None,
     end |-> 0, file |-> Err("File not found"), mime |-> None, io |-> <<>>,
     elapsed |-> 0, resp |-> None, log |-> <<>>]

Start ==
    /\ pc = "from_args"
    /\ parsed = None
    /\ routes = <<>>
    /\ other_args = into_iter_peekable
    /\ map = HashMap_new
    /\ exit = None
    /\ listener = [a \in {} |-> None]
    /\ task = [t \in Tasks |-> IdleTask]

Init == argv \in CommandLines /\ Start

InitArgs == argv \in ArgLines /\ Start

InitConc ==
    /\ argv \in ConcLines
    /\ pc = "from_args"
    /\ parsed = None
    /\ routes = <<>>
    /\ other_args = into_iter_peekable
    /\ map = HashMap_new
    /\ exit = None
    /\ listener = [a \in {} |-> None]
    /\ task = [t \in ConcTasks |-> IdleTask]

(***************************************************************************)
(* main.rs: run                                                            *)
(***************************************************************************)
\* lines 39-41
run_from_args ==
    /\ pc = "from_args"
    /\ LET r == from_args(argv)
       IN /\ parsed' = Some(r)
          /\ IF r.ok
             THEN /\ routes' = r.val.routes
                  /\ other_args' = r.val.args
                  /\ pc' = "get_matches"
                  /\ exit' = exit
             ELSE /\ pc' = "exited"
                  /\ exit' = Some(Err(<<"failed to parse routes: ">> \o r.err))
                  /\ UNCHANGED <<routes, other_args>>
    /\ UNCHANGED <<argv, map, listener, task>>

\* lines 42-49: an App without arguments of its own prints its help for
\* --help and rejects every other argument; either way the process exits
get_matches_from(rest) ==
    IF rest = <<>> THEN None
    ELSE IF rest[1] = "--help" THEN Some(Ok(<<"help">>))
    ELSE Some(Err(<<"Found argument '", rest[1], "' which wasn't expected">>))

run_get_matches ==
    /\ pc = "get_matches"
    /\ LET m == get_matches_from(remaining(argv, other_args))
       IN IF m.some THEN pc' = "exited" /\ exit' = m
          ELSE pc' = "check_routes" /\ exit' = exit
    /\ UNCHANGED <<argv, parsed, routes, other_args, map, listener, task>>

\* run without the test of lines 51-53
run_check_routes_unchecked ==
    /\ pc = "check_routes"
    /\ pc' = "partition"
    /\ UNCHANGED <<argv, parsed, routes, other_args, map, exit, listener, task>>

\* lines 51-58
run_check_routes ==
    /\ pc = "check_routes"
    /\ IF routes = <<>>
       THEN /\ pc' = "exited"
            /\ exit' = Some(Err(<<"No routes have been provided. Use -h or --help for more information">>))
       ELSE pc' = "partition" /\ exit' = exit
    /\ UNCHANGED <<argv, parsed, routes, other_args, map, listener, task>>

\* lines 60-66
run_partition ==
    /\ pc = "partition"
    /\ LET m == partition(routes, 1, HashMap_new)
       IN IF m.ok THEN map' = m.val /\ pc' = "spawn" /\ exit' = exit
          ELSE map' = map /\ pc' = "exited" /\ exit' = Some(m)
    /\ UNCHANGED <<argv, parsed, routes, other_args, listener, task>>

\* lines 68-73: one handle_requests future per entry of the map, not yet polled
run_spawn ==
    /\ pc = "spawn"
    /\ listener' = [a \in DOMAIN map |->
                      [status |-> "created", routes |-> map[a],
                       matcher |-> <<>>, logged |-> None]]
    /\ pc' = "join_all"
    /\ UNCHANGED <<argv, parsed, routes, other_args, map, exit, task>>

\* lines 78-99: the first poll of a handle_requests future; Server::bind
\* panics when the address cannot be bound
handle_requests(a) ==
    /\ pc = "join_all"
    /\ a \in DOMAIN listener
    /\ listener[a].status = "created"
    /\ \E bound \in BOOLEAN :
          IF bound
          THEN /\ listener' = [listener EXCEPT ![a].status = "serving",
                                   ![a].matcher = Matcher_new(listener[a].routes)]
               /\ UNCHANGED <<pc, exit>>
          ELSE /\ pc' = "panicked"
               /\ exit' = Some(Err(<<"panicked: error binding to ", a>>))
               /\ UNCHANGED listener
    /\ UNCHANGED <<argv, parsed, routes, other_args, map, task>>

\* lines 101-103: the server ends with an error
handle_requests_err(a) ==
    /\ pc = "join_all"
    /\ a \in DOMAIN listener
    /\ listener[a].status = "serving"
    /\ listener' = [listener EXCEPT ![a].status = "stopped",
                        ![a].logged = Some([level |-> "error", err |-> "accept failed"])]
    /\ UNCHANGED <<argv, pc, parsed, routes, other_args, map, exit, task>>

\* lines 73-74: join_all is done when every handle_requests future is
run_join_all ==
    /\ pc = "join_all"
    /\ \A a \in DOMAIN listener : listener[a].status = "stopped"
    /\ pc' = "exited"
    /\ exit' = Some(Ok(<<>>))
    /\ UNCHANGED <<argv, parsed, routes, other_args, map, listener, task>>

(***************************************************************************)
(* main.rs: handle_request and do_handle_request                           *)
(***************************************************************************)
\* line 109
src_path(tk) == [socket_addr |-> tk.socket_addr, uri |-> tk.uri]

\* The response is out and its line is logged.
respond(tk, resp, line) ==
    [tk EXCEPT !.phase = "responded", !.resp = Some(resp), !.log = Append(@, line)]

\* no_route with a read of the request path before the answer.
no_route_reading(tk) ==
    respond([tk EXCEPT !.io = <<[op |-> "read", target |-> tk.uri, result |-> "pending"]>>],
        [status |-> 404, content_type |-> None,
         body |-> [text |-> "Weave: No routes matched"]],
        [level |-> "warn", colour |-> "Red", status |-> "no matching routes",
         src |-> src_path(tk), dest |-> None, err |-> None,
         duration |-> tk.elapsed])

\* lines 113-121
no_route(tk) ==
    respond(tk,
        [status |-> 404, content_type |-> None,
         body |-> [text |-> "Weave: No routes matched"]],
        [level |-> "warn", colour |-> "Red", status |-> "no matching routes",
         src |-> src_path(tk), dest |-> None, err |-> None,
         duration |-> tk.elapsed])

\* line 128
status_col(status_code) ==
    IF status_code >= 200 /\ status_code < 300 THEN "Green"
    ELSE IF status_code >= 300 /\ status_code < 400 THEN "Yellow"
    ELSE "Red"

\* lines 124-137: do_handle_request returned Ok(resp)
handled_ok(tk, resp) ==
    respond(tk, resp,
        [level |-> "info", colour |-> status_col(resp.status),
         status |-> ToString(resp.status), src |-> src_path(tk),
         dest |-> tk.dest_path, err |-> None, duration |-> tk.elapsed])

\* handled_err with the error left out of the body.
handled_err_silent(tk, err) ==
    respond(tk,
        [status |-> 500, content_type |-> None,
         body |-> [text |-> "Weave: ", err |-> "internal error"]],
        [level |-> "warn", colour |-> "Red", status |-> "500",
         src |-> src_path(tk), dest |-> tk.dest_path, err |-> Some(err),
         duration |-> tk.elapsed])

\* lines 138-150: do_handle_request returned Err(err)
handled_err(tk, err) ==
    respond(tk,
        [status |-> 500, content_type |-> None,
         body |-> [text |-> "Weave: ", err |-> err]],
        [level |-> "warn", colour |-> "Red", status |-> "500",
         src |-> src_path(tk), dest |-> tk.dest_path, err |-> Some(err),
         duration |-> tk.elapsed])

\* ends with index.html tried before index.htm.
ends_swapped == <<"", "index.html", "index.htm">>

\* line 178
ends == <<"", "index.htm", "index.html">>

\* lines 179-180: the candidate of one turn of the loop
candidate(path, end) == IF ends[end] = "" THEN path ELSE Append(path, ends[end])

\* mime_guess::from_path(p).first_or_octet_stream(), by the extension
mime_guess(p) ==
    IF p # <<>> /\ p[Len(p)] \in {"index.htm", "index.html"} THEN "text/html"
    ELSE "application/octet-stream"

\* The bytes of the file at p.
contents(p) == [bytes_of |-> p]

\* start_read with the type guessed from the resolved path, whatever the
\* candidate.
start_read_mime_of_path(tk, end) ==
    LET p == candidate(tk.dest_path.val.path, end)
    IN [tk EXCEPT !.phase = "reading", !.end = end,
                  !.mime = Some(mime_guess(tk.dest_path.val.path)),
                  !.io = Append(@, [op |-> "read", target |-> p, result |-> "pending"])]

\* lines 179-182: one turn of the loop, up to the await of fs::read
start_read(tk, end) ==
    LET p == candidate(tk.dest_path.val.path, end)
    IN [tk EXCEPT !.phase = "reading", !.end = end,
                  !.mime = Some(mime_guess(p)),
                  !.io = Append(@, [op |-> "read", target |-> p, result |-> "pending"])]

\* lines 187-193
file_response(tk) ==
    [status |-> 200, content_type |-> tk.mime, body |-> tk.file.val]

\* could_not_read with the last candidate in the body, not the resolved path.
could_not_read_candidate(tk) ==
    [status |-> 404, content_type |-> None,
     body |-> [text |-> "Weave: Could not read file",
               path |-> candidate(tk.dest_path.val.path, tk.end),
               err |-> tk.file.err]]

\* lines 194-200
could_not_read(tk) ==
    [status |-> 404, content_type |-> None,
     body |-> [text |-> "Weave: Could not read file", path |-> tk.dest_path.val.path,
               err |-> tk.file.err]]

\* lines 182-202: fs::read has answered with r
after_read(tk, r) ==
    LET got == [tk EXCEPT !.file = r,
                          !.io[Len(tk.io)].result = IF r.ok THEN "ok" ELSE "err"]
    IN IF r.ok THEN handled_ok(got, file_response(got))
       ELSE IF got.end < Len(ends) THEN start_read(got, got.end + 1)
       ELSE handled_ok(got, could_not_read(got))

\* HttpsConnector::new() fails with one of these.
ConnectorErrors == {"tls backend unavailable"}

\* lines 156-182: do_handle_request up to its first await; format!(url).parse()
\* fails on a URL hyper's Uri does not take (one longer than Uri's maximum),
\* and unwrap then panics
do_handle_request(tk) ==
    IF tk.dest_path.val.variant = "Url"
    THEN {[tk EXCEPT !.phase = "panicked"]}
         \cup {handled_err(tk, e) : e \in ConnectorErrors}
         \cup {[tk EXCEPT !.phase = "proxying",
                   !.io = <<[op |-> "request", target |-> tk.dest_path.val.url,
                             result |-> "pending"]>>]}
    ELSE {start_read(tk, 1)}

\* handle_request with a matcher that moves with every resolve: the order of
\* its routes is turned round.
handle_request_reordering(t, a, uri) ==
    /\ pc = "join_all"
    /\ a \in DOMAIN listener
    /\ listener[a].status = "serving"
    /\ task[t].phase = "idle"
    /\ LET dest_path == Matcher_resolve(listener[a].matcher, uri)
           tk == [IdleTask EXCEPT !.socket_addr = a, !.uri = uri,
                                  !.dest_path = dest_path]
       IN IF ~dest_path.some
          THEN task' = [task EXCEPT ![t] = no_route(tk)]
          ELSE \E next_tk \in do_handle_request(tk) :
                  task' = [task EXCEPT ![t] = next_tk]
    /\ listener' = [listener EXCEPT ![a].matcher =
                        [k \in DOMAIN @ |-> @[Len(@) + 1 - k]]]
    /\ UNCHANGED <<argv, pc, parsed, routes, other_args, map, exit>>

\* lines 107-123: a request for uri arrives at the listener on a
handle_request(t, a, uri) ==
    /\ pc = "join_all"
    /\ a \in DOMAIN listener
    /\ listener[a].status = "serving"
    /\ task[t].phase = "idle"
    /\ LET dest_path == Matcher_resolve(listener[a].matcher, uri)
           tk == [IdleTask EXCEPT !.socket_addr = a, !.uri = uri,
                                  !.dest_path = dest_path]
       IN IF ~dest_path.some
          THEN task' = [task EXCEPT ![t] = no_route(tk)]
          ELSE \E next_tk \in do_handle_request(tk) :
                  task' = [task EXCEPT ![t] = next_tk]
    /\ UNCHANGED <<argv, pc, parsed, routes, other_args, map, exit, listener>>

\* line 182: fs::read(p).await is done
fs_read(t) ==
    /\ pc = "join_all"
    /\ task[t].phase = "reading"
    /\ \E d \in 0..MaxIoTime :
       \E r \in {Ok(contents(candidate(task[t].dest_path.val.path, task[t].end)))}
                    \cup {Err(e) : e \in IoErrors} :
          task' = [task EXCEPT
                      ![t] = after_read([task[t] EXCEPT !.elapsed = @ + d], r)]
    /\ UNCHANGED <<argv, pc, parsed, routes, other_args, map, exit, listener>>

\* lines 167-171: the upstream has answered, and the answer is passed on
proxy_ok(tk, status) ==
    handled_ok([tk EXCEPT !.io[1].result = "ok"],
        [status |-> status, content_type |-> None, body |-> [upstream |-> status]])

\* lines 170, 138-150: the outbound request failed
proxy_err(tk, e) == handled_err([tk EXCEPT !.io[1].result = e], e)

\* line 170: client.request(req).await is done
client_request(t) ==
    /\ pc = "join_all"
    /\ task[t].phase = "proxying"
    /\ \E d \in 0..MaxIoTime :
       LET tk == [task[t] EXCEPT !.elapsed = @ + d]
       IN \/ \E status \in UpstreamStatus :
                task' = [task EXCEPT ![t] = proxy_ok(tk, status)]
          \/ \E e \in TransportErrors :
                task' = [task EXCEPT ![t] = proxy_err(tk, e)]
    /\ UNCHANGED <<argv, pc, parsed, routes, other_args, map, exit, listener>>

\* The response is sent, or the panicked task's connection is dropped; the
\* task takes the next request.
task_done(t) ==
    /\ pc = "join_all"
    /\ task[t].phase \in {"responded", "panicked"}
    /\ task' = [task EXCEPT ![t] = IdleTask]
    /\ UNCHANGED <<argv, pc, parsed, routes, other_args, map, exit, listener>>

(***************************************************************************)
(* Specifications                                                          *)
(***************************************************************************)
\* The whole program.
Next ==
    \/ run_from_args
    \/ run_get_matches
    \/ run_check_routes
    \/ run_partition
    \/ run_spawn
    \/ run_join_all
    \/ \E a \in SocketAddrs : handle_requests(a)
    \/ \E a \in SocketAddrs : handle_requests_err(a)
    \/ \E t \in Tasks, a \in SocketAddrs, uri \in Paths : handle_request(t, a, uri)
    \/ \E t \in Tasks : fs_read(t)
    \/ \E t \in Tasks : client_request(t)
    \/ \E t \in Tasks : task_done(t)

Spec == Init /\ [][Next]_vars

\* Argument parsing alone, over freely chosen command lines.
NextArgs == run_from_args \/ run_get_matches

SpecArgs == InitArgs /\ [][NextArgs]_vars

\* The whole program with two requests in flight at once.
NextConc ==
    \/ run_from_args
    \/ run_get_matches
    \/ run_check_routes
    \/ run_partition
    \/ run_spawn
    \/ run_join_all
    \/ \E a \in SocketAddrs : handle_requests(a)
    \/ \E a \in SocketAddrs : handle_requests_err(a)
    \/ \E t \in ConcTasks, a \in SocketAddrs, uri \in ConcPaths :
          handle_request(t, a, uri)
    \/ \E t \in ConcTasks : fs_read(t)
    \/ \E t \in ConcTasks : client_request(t)
    \/ \E t \in ConcTasks : task_done(t)

SpecConc == InitConc /\ [][NextConc]_vars

(***************************************************************************)
(* Properties                                                              *)
(***************************************************************************)
Range(s) == {s[k] : k \in DOMAIN s}

\* The routes handle_requests was given for the listener a task's request
\* came in on.
group_of(t) == listener[task[t].socket_addr].routes

\* Route r's prefix is a proper segment-prefix of route q's.
ProperPrefix(r, q) ==
    /\ IsPrefix(r.src.path_prefix, q.src.path_prefix)
    /\ r.src.path_prefix # q.src.path_prefix

declared(k) ==
    [src |-> SrcLocation_parse(argv[4 * k - 3]).val,
     dest |-> DestLocation_parse(argv[4 * k - 1]).val]

\* Routes i < j of the parsed list tie for the request of task t: both belong
\* to the task's listener, their prefixes are the same and match, i is the
\* first with that prefix and no route of the listener matches with a longer
\* one.
Tie(t, i, j) ==
    /\ i < j
    /\ src_socket_addr(routes[i]) = Ok(task[t].socket_addr)
    /\ src_socket_addr(routes[j]) = Ok(task[t].socket_addr)
    /\ routes[i].src.path_prefix = routes[j].src.path_prefix
    /\ IsPrefix(routes[i].src.path_prefix, task[t].uri)
    /\ \A k \in DOMAIN routes :
          (/\ src_socket_addr(routes[k]) = Ok(task[t].socket_addr)
           /\ IsPrefix(routes[k].src.path_prefix, task[t].uri))
          => /\ Len(routes[k].src.path_prefix) <= Len(routes[i].src.path_prefix)
             /\ (routes[k].src.path_prefix = routes[i].src.path_prefix => i <= k)

\* C2: from_args returns the routes in the order of their triples on the
\* command line; every group of run's map is the sub-list of those routes
\* with that socket address, in the same order; and of two routes of one
\* listener with the same prefix a matching request resolves to the
\* destination of the one declared first.
C2_DeclarationOrder ==
    /\ (parsed.some /\ parsed.val.ok) =>
          \A k \in DOMAIN routes : routes[k] = declared(k)
    /\ \A a \in DOMAIN map :
          map[a] = SelectSeq(routes, LAMBDA r : src_socket_addr(r) = Ok(a))
    /\ \A t \in Tasks :
          task[t].phase # "idle" =>
              \A i, j \in DOMAIN routes :
                  Tie(t, i, j) =>
                      task[t].dest_path = Some(resolve_with(routes[i], task[t].uri))

\* C2's case: two routes with one prefix and two destinations, declared for
\* two host names of one socket address, and a matching request resolved.
C2_Witness ==
    \E t \in Tasks :
        /\ task[t].phase # "idle"
        /\ \E i, j \in DOMAIN routes :
              /\ Tie(t, i, j)
              /\ routes[i].dest # routes[j].dest
              /\ routes[i].src.address # routes[j].src.address

\* The tokens at k, k+1, k+2 are a route from_args accepts.
RouteAt(k) ==
    /\ k + 2 <= Len(argv)
    /\ SrcLocation_parse(argv[k]).ok
    /\ trim(argv[k + 1]) = "to"
    /\ DestLocation_parse(argv[k + 2]).ok

\* k is a source position of the command line: the first token, or the one
\* after an `and` that follows complete routes joined by `and`.  k may be one
\* past the last token.
SrcPosition(k) ==
    /\ k \in 1..(Len(argv) + 1)
    /\ k % 4 = 1
    /\ \A m \in 1..(k - 1) :
          m % 4 = 1 => RouteAt(m) /\ trim(argv[m + 3]) = "and"

\* from_args failed: no routes came back and run has stopped.
NothingEmitted == ~parsed.val.ok /\ routes = <<>> /\ pc = "exited"

\* C3 as stated: a source token followed by nothing or by a token other than
\* exactly `to` makes the parse fail with the error naming that token.
C3_ExactlyTo ==
    parsed.some =>
        \A k \in 1..Len(argv) :
            (/\ SrcPosition(k)
             /\ SrcLocation_parse(argv[k]).ok
             /\ (k + 1 > Len(argv) \/ argv[k + 1] # "to"))
            => /\ NothingEmitted
               /\ {argv[k], "to"} \subseteq Range(parsed.val.err)

\* C3, amended: a source token followed by nothing or by a token that is not
\* `to` once its surrounding whitespace is trimmed makes the parse fail with
\* "Expecting the word 'to' after the location '<source token>'", and no
\* route is returned, those parsed before the failure included.
C3_ToRequired ==
    parsed.some =>
        \A k \in 1..Len(argv) :
            (/\ SrcPosition(k)
             /\ SrcLocation_parse(argv[k]).ok
             /\ (k + 1 > Len(argv) \/ trim(argv[k + 1]) # "to"))
            => /\ NothingEmitted
               /\ parsed.val = Err(ExpectingTo(argv[k]))
               /\ {argv[k], "to"} \subseteq Range(parsed.val.err)

\* C3's case: a complete route and `and`, then a source token with a token
\* other than `to` after it.
C3_Witness ==
    /\ parsed.some
    /\ SrcPosition(5)
    /\ Len(argv) >= 6
    /\ SrcLocation_parse(argv[5]).ok
    /\ trim(argv[6]) # "to"

\* Tokens from_args has taken out of the iterator it hands back.
consumed(args) == Len(argv) - Len(remaining(argv, args))

\* C4: an `and` consumed after a complete route with no token or a token
\* that is no source location after it makes the parse fail with "'and' not
\* followed by a subsequent route"; a successful parse never ends on a
\* consumed `and`.
C4_AndNeedsRoute ==
    parsed.some =>
        /\ \A k \in 2..(Len(argv) + 1) :
              (/\ SrcPosition(k)
               /\ (k > Len(argv) \/ ~SrcLocation_parse(argv[k]).ok))
              => NothingEmitted /\ parsed.val = Err(AndNotFollowed)
        /\ parsed.val.ok =>
              \/ consumed(parsed.val.val.args) = 0
              \/ consumed(parsed.val.val.args) % 4 = 3

\* C4's case: a command line that ends on `and` after a complete route.
C4_Witness ==
    /\ parsed.some
    /\ Len(argv) = 4
    /\ SrcPosition(5)

\* C5 as stated: after a source token and `to`, a destination that does not
\* parse or is missing makes the parse fail with an error naming the
\* destination token and the parse error.
C5_NamesDestination ==
    parsed.some =>
        \A k \in 1..Len(argv) :
            (/\ SrcPosition(k)
             /\ SrcLocation_parse(argv[k]).ok
             /\ k + 1 <= Len(argv)
             /\ trim(argv[k + 1]) = "to"
             /\ (k + 2 > Len(argv) \/ ~DestLocation_parse(argv[k + 2]).ok))
            => /\ NothingEmitted
               /\ k + 2 <= Len(argv)
               /\ {argv[k + 2], DestLocation_parse(argv[k + 2]).err}
                      \subseteq Range(parsed.val.err)

\* C5, amended: after a source token and `to`, a destination token that does
\* not parse makes the parse fail with "Error parsing '<destination token>':
\* <parse error>"; when the tokens end after `to` the parse fails with
\* "Expecting a destination location to be provided after '<source token>
\* to'", which names the source token; no route is returned in either case.
C5_DestRequired ==
    parsed.some =>
        \A k \in 1..Len(argv) :
            (/\ SrcPosition(k)
             /\ SrcLocation_parse(argv[k]).ok
             /\ k + 1 <= Len(argv)
             /\ trim(argv[k + 1]) = "to"
             /\ (k + 2 > Len(argv) \/ ~DestLocation_parse(argv[k + 2]).ok))
            => /\ NothingEmitted
               /\ IF k + 2 <= Len(argv)
                  THEN /\ parsed.val =
                            Err(ErrorParsing(argv[k + 2],
                                             DestLocation_parse(argv[k + 2]).err))
                       /\ {argv[k + 2], DestLocation_parse(argv[k + 2]).err}
                              \subseteq Range(parsed.val.err)
                  ELSE /\ parsed.val = Err(ExpectingDest(argv[k]))
                       /\ argv[k] \in Range(parsed.val.err)

\* C5's case: the destination of the second route does not parse.
C5_Witness ==
    /\ parsed.some
    /\ SrcPosition(5)
    /\ Len(argv) >= 7
    /\ SrcLocation_parse(argv[5]).ok
    /\ trim(argv[6]) = "to"
    /\ ~DestLocation_parse(argv[7]).ok

\* C6: a successful from_args with n routes has consumed the first 4n-1
\* tokens (none when n = 0): route k is made of the tokens 4k-3 and 4k-1
\* with `to` between them and `and` between routes, the iterator handed back
\* yields exactly the tokens after those, in order, and the first of them is
\* no source location (n = 0) or is not `and` (n >= 1).
C6_ConsumedPrefix ==
    (parsed.some /\ parsed.val.ok) =>
        LET n == Len(parsed.val.val.routes)
            c == IF n = 0 THEN 0 ELSE 4 * n - 1
            rest == remaining(argv, parsed.val.val.args)
        IN /\ c <= Len(argv)
           /\ rest = SubSeq(argv, c + 1, Len(argv))
           /\ \A k \in 1..n :
                 /\ parsed.val.val.routes[k] = declared(k)
                 /\ trim(argv[4 * k - 2]) = "to"
                 /\ k < n => trim(argv[4 * k]) = "and"
           /\ rest # <<>> =>
                 IF n = 0 THEN ~SrcLocation_parse(rest[1]).ok
                 ELSE trim(rest[1]) # "and"

\* C6's case: a route, then a second triple with no `and` before it, which
\* comes back unconsumed.
C6_Witness ==
    /\ parsed.some
    /\ parsed.val.ok
    /\ Len(parsed.val.val.routes) = 1
    /\ Len(remaining(argv, parsed.val.val.args)) >= 3
    /\ SrcLocation_parse(remaining(argv, parsed.val.val.args)[1]).ok
    /\ remaining(argv, parsed.val.val.args)[2] = "to"
    /\ DestLocation_parse(remaining(argv, parsed.val.val.args)[3]).ok

\* Task t handles a request that resolved to a file path.
ToFile(t) ==
    /\ task[t].phase # "idle"
    /\ task[t].dest_path.some
    /\ task[t].dest_path.val.variant = "FilePath"

\* Task t handles a request that resolved to a URL.
ToUrl(t) ==
    /\ task[t].phase # "idle"
    /\ task[t].dest_path.some
    /\ task[t].dest_path.val.variant = "Url"

\* C7: a request whose path is under no prefix of its listener's routes is
\* answered at once with 404 and the fixed body, and no read of a file and
\* no outbound request has been started for it.
C7_NoRoute404 ==
    \A t \in Tasks :
        (/\ task[t].phase # "idle"
         /\ \A i \in DOMAIN group_of(t) :
               ~IsPrefix(group_of(t)[i].src.path_prefix, task[t].uri))
        => /\ task[t].phase = "responded"
           /\ task[t].resp.val.status = 404
           /\ task[t].resp.val.body = [text |-> "Weave: No routes matched"]
           /\ task[t].io = <<>>

\* C7's case: a request outside every prefix of its listener has its answer.
C7_Witness ==
    \E t \in Tasks :
        /\ task[t].phase = "responded"
        /\ \A i \in DOMAIN group_of(t) :
              ~IsPrefix(group_of(t)[i].src.path_prefix, task[t].uri)

\* The k-th file tried for a resolved path.
Tried(path, k) ==
    CASE k = 1 -> path
      [] k = 2 -> Append(path, "index.htm")
      [] k = 3 -> Append(path, "index.html")

\* C8: for a request resolved to a file path the reads are, in this order,
\* of the path, of path/index.htm and of path/index.html; a read is only
\* started after all reads before it have failed; the first read that
\* succeeds ends the request with 200 and that file's bytes as the body.
C8_FileCandidates ==
    \A t \in Tasks :
        ToFile(t) =>
            LET io == task[t].io
                path == task[t].dest_path.val.path
            IN /\ Len(io) \in 1..3
               /\ \A k \in DOMAIN io :
                     io[k].op = "read" /\ io[k].target = Tried(path, k)
               /\ \A k \in 1..(Len(io) - 1) : io[k].result = "err"
               /\ io[Len(io)].result = "ok" =>
                     /\ task[t].phase = "responded"
                     /\ task[t].resp.val.status = 200
                     /\ task[t].resp.val.body = contents(Tried(path, Len(io)))
               /\ (task[t].phase = "responded" /\ task[t].resp.val.status = 200) =>
                     io[Len(io)].result = "ok"

\* C8's case: only path/index.html can be read, and it is the body.
C8_Witness ==
    \E t \in Tasks :
        /\ ToFile(t)
        /\ task[t].phase = "responded"
        /\ Len(task[t].io) = 3
        /\ task[t].io[3].result = "ok"

\* C9: when the reads of all three candidates have failed, whatever the
\* errors, the answer is 404 and its body names the path the request
\* resolved to and carries the error of the last read, the one `file` holds.
C9_Unreadable404 ==
    \A t \in Tasks :
        (/\ ToFile(t)
         /\ Len(task[t].io) = 3
         /\ \A k \in 1..3 : task[t].io[k].result = "err")
        => /\ task[t].phase = "responded"
           /\ task[t].resp.val.status = 404
           /\ task[t].resp.val.body.path = task[t].dest_path.val.path
           /\ ~task[t].file.ok
           /\ task[t].file.err \in IoErrors
           /\ task[t].resp.val.body.err = task[t].file.err

\* C9's case: none of the three can be read, the last because it is a
\* directory.
C9_Witness ==
    \E t \in Tasks :
        /\ ToFile(t)
        /\ Len(task[t].io) = 3
        /\ \A k \in 1..3 : task[t].io[k].result = "err"
        /\ task[t].file = Err("Is a directory")

\* The warning handle_request logs for a request that failed with e.
Warned(t, e) ==
    /\ Len(task[t].log) = 1
    /\ task[t].log[1].level = "warn"
    /\ task[t].log[1].status = "500"
    /\ task[t].log[1].err = Some(e)
    /\ task[t].log[1].duration = task[t].elapsed

\* C10: for a request resolved to a URL, a failed outbound request, and a
\* connector that could not be built, end the request with a 500 whose body
\* carries the error; the error is logged as a warning with the time the
\* request took, and handle_request returns the response.
C10_ProxyFailure500 ==
    \A t \in Tasks :
        ToUrl(t) =>
            /\ (task[t].io # <<>> /\ task[t].io[1].result \in TransportErrors) =>
                  /\ task[t].phase = "responded"
                  /\ task[t].resp.val.status = 500
                  /\ task[t].resp.val.body.err = task[t].io[1].result
                  /\ Warned(t, task[t].io[1].result)
            /\ (task[t].io = <<>> /\ task[t].phase = "responded") =>
                  /\ task[t].resp.val.status = 500
                  /\ task[t].resp.val.body.err \in ConnectorErrors
                  /\ task[t].log[1].err \in {Some(e) : e \in ConnectorErrors}
                  /\ Warned(t, task[t].log[1].err.val)

\* C10's case: the outbound request timed out after some time.
C10_Witness ==
    \E t \in Tasks :
        /\ ToUrl(t)
        /\ task[t].io # <<>>
        /\ task[t].io[1].result = "timed out"
        /\ task[t].elapsed > 0

\* A path with its `..` segments resolved against the segments before them,
\* as the file system resolves them; a `..` with nothing before it stays.
RECURSIVE Normalise(_)
Normalise(p) ==
    IF p = <<>> THEN <<>>
    ELSE LET head == Normalise(SubSeq(p, 1, Len(p) - 1))
             seg == p[Len(p)]
         IN IF seg = ".." /\ head # <<>> /\ head[Len(head)] # ".."
            THEN SubSeq(head, 1, Len(head) - 1)
            ELSE Append(head, seg)

\* The file p lies in the directory base or below it.
Inside(base, p) == IsPrefix(Normalise(base), Normalise(p))

\* The routes of t's listener that give the destination t's request
\* resolved to.
matched(t) ==
    {r \in Range(group_of(t)) :
        /\ IsPrefix(r.src.path_prefix, task[t].uri)
        /\ task[t].dest_path = Some(resolve_with(r, task[t].uri))}

\* C11: for a request matched by a route to a local root, whatever the
\* remainder after the prefix, `..` segments included, every file the
\* dispatcher tries to read lies inside that route's base path.
C11_ReadsInsideBase ==
    \A t \in Tasks :
        ToFile(t) =>
            \A r \in matched(t) :
                \A k \in 1..Len(task[t].io) :
                    Inside(r.dest.base, task[t].io[k].target)

\* The process is over: run has returned, or a panic has ended it.
ProcessOver == pc \in {"exited", "panicked"}

\* C12: a listener that fails to bind, or whose accept loop ends with an
\* error, logs the error and only stops itself: the process is not over
\* while a listener is serving, and a listener that has stopped has logged
\* its error.
C12_ListenersIsolated ==
    \A a \in DOMAIN listener :
        /\ ProcessOver => listener[a].status # "serving"
        /\ listener[a].status = "stopped" =>
              /\ listener[a].logged.some
              /\ listener[a].logged.val.level = "error"

\* The text of main.rs 52.
NoRoutes == <<"No routes have been provided. Use -h or --help for more information">>

\* A handle_requests future exists, polled or not.
AnyListener == DOMAIN listener # {}

PastPartition ==
    \/ pc \in {"join_all", "panicked"}
    \/ /\ pc = "exited"
       /\ parsed.some
       /\ parsed.val.ok
       /\ routes # <<>>
       /\ remaining(argv, other_args) = <<>>

\* C14: a route whose address does not resolve gets no listener, while the
\* routes whose addresses do resolve get theirs.
C14_ResolvableListenersStart ==
    PastPartition =>
        \A k \in DOMAIN routes :
            LET addrs == to_socket_addrs(routes[k].src.address)
            IN IF addrs.ok
               THEN /\ addrs.val[1] \in DOMAIN listener
                    /\ routes[k] \in Range(listener[addrs.val[1]].routes)
               ELSE \A a \in DOMAIN listener :
                       routes[k] \notin Range(listener[a].routes)

\* handle_request is over for the request of task t: it has returned its
\* response, or a panic has ended it.
Handled(t) == task[t].phase \in {"responded", "panicked"}

\* C15: a handled request has exactly one response and exactly one log
\* line, neither of them before the request is handled; the line carries the
\* response's status code, or "no matching routes" when no route matched,
\* the address and path the request came in on, the destination it resolved
\* to when there is one, and the time it took.
C15_OneResponseOneLine ==
    \A t \in Tasks :
        /\ task[t].phase \in {"reading", "proxying"} =>
              /\ ~task[t].resp.some
              /\ task[t].log = <<>>
        /\ Handled(t) =>
              /\ task[t].resp.some
              /\ Len(task[t].log) = 1
              /\ task[t].log[1].status =
                    IF task[t].dest_path.some
                    THEN ToString(task[t].resp.val.status)
                    ELSE "no matching routes"
              /\ task[t].log[1].src =
                    [socket_addr |-> task[t].socket_addr, uri |-> task[t].uri]
              /\ task[t].log[1].dest = task[t].dest_path
              /\ task[t].log[1].duration = task[t].elapsed

\* C16: a request resolved to a file path for which no candidate could be
\* read, answered with 404, is logged as a warning, and the logged line
\* carries the error of the failed read.
C16_FileErrorWarned ==
    \A t \in Tasks :
        (/\ ToFile(t)
         /\ task[t].phase = "responded"
         /\ task[t].resp.val.status = 404)
        => /\ Len(task[t].log) = 1
           /\ task[t].log[1].level = "warn"
           /\ task[t].log[1].err = Some(task[t].file.err)

\* The file branch has answered t's request with 200.
Served(t) ==
    /\ ToFile(t)
    /\ task[t].phase = "responded"
    /\ task[t].resp.val.status = 200

\* C18: when the file branch answers 200, the Content-Type of the response
\* is the type guessed from the path of the candidate whose read succeeded,
\* the last one tried, and the body is that candidate's bytes.
C18_ContentTypeOfCandidate ==
    \A t \in Tasks :
        Served(t) =>
            LET p == Tried(task[t].dest_path.val.path, Len(task[t].io))
            IN /\ task[t].io[Len(task[t].io)] =
                     [op |-> "read", target |-> p, result |-> "ok"]
               /\ task[t].resp.val.content_type = Some(mime_guess(p))
               /\ task[t].resp.val.body = contents(p)

\* C18's case: the path itself could not be read and path/index.htm could,
\* so the type is that of index.htm, not that of the path.
C18_Witness ==
    \E t \in Tasks :
        /\ Served(t)
        /\ Len(task[t].io) = 2
        /\ task[t].resp.val.content_type = Some("text/html")
        /\ mime_guess(task[t].dest_path.val.path) = "application/octet-stream"

\* The first socket address the source of route r resolves to.
first_addr(r) == to_socket_addrs(r.src.address).val[1]

\* The routes, in declaration order, whose source resolves first to a.
routes_on(a) == SelectSeq(routes, LAMBDA r : first_addr(r) = a)

\* C19: once the handle_requests futures are made there is exactly one
\* listener for every socket address that is the first address some route's
\* source resolves to, and no other; every route is in the group of the
\* listener for its first address and in no other group, as often as it was
\* declared; a listener that serves has one matcher, built from its group.
C19_OneListenerPerAddress ==
    pc \in {"join_all", "panicked"} =>
        /\ DOMAIN listener = {first_addr(routes[k]) : k \in DOMAIN routes}
        /\ \A a \in DOMAIN listener :
              /\ listener[a].routes = routes_on(a)
              /\ listener[a].status = "serving" =>
                    listener[a].matcher = Matcher_new(routes_on(a))
        /\ \A k \in DOMAIN routes :
              {a \in DOMAIN listener : routes[k] \in Range(listener[a].routes)}
                  = {first_addr(routes[k])}

\* C19's case: two routes with different hosts and different prefixes whose
\* sources resolve to the same socket address share one serving listener.
C19_Witness ==
    /\ pc = "join_all"
    /\ Len(routes) = 2
    /\ routes[1].src.address # routes[2].src.address
    /\ routes[1].src.path_prefix # routes[2].src.path_prefix
    /\ DOMAIN listener = {"10.0.0.1:1"}
    /\ listener["10.0.0.1:1"].status = "serving"
    /\ Len(listener["10.0.0.1:1"].matcher) = 2

\* Tasks t and u handle the same request path on the same listener.
SameRequest(t, u) ==
    /\ task[t].phase # "idle"
    /\ task[u].phase # "idle"
    /\ task[t].socket_addr = task[u].socket_addr
    /\ task[t].uri = task[u].uri

\* C17: the matcher a listener's handlers share stays as handle_requests
\* built it from the listener's routes, and two requests for the same path
\* on the same listener, however their handling interleaves with each other
\* and with other requests, resolve to the same location.
C17_MatcherReadOnly ==
    /\ \A a \in DOMAIN listener :
          listener[a].status # "created" =>
              listener[a].matcher = Matcher_new(listener[a].routes)
    /\ \A t \in DOMAIN task, u \in DOMAIN task :
          SameRequest(t, u) => task[t].dest_path = task[u].dest_path

\* C17's case: two routes with the same prefix on the listener and two
\* requests for /a in flight at once, t1's already answered and t2's at its
\* second read.
C17_Witness ==
    /\ DOMAIN task = ConcTasks
    /\ SameRequest("t1", "t2")
    /\ task["t1"].uri = <<"a">>
    /\ Cardinality({r.src.path_prefix : r \in Range(group_of("t1"))}) = 1
    /\ Len(group_of("t1")) = 2
    /\ task["t1"].phase = "responded"
    /\ task["t2"].phase = "reading"
    /\ Len(task["t2"].io) = 2

====
